---- MODULE Spec2Model ----
(***************************************************************************)
(* Model of tv-photo-slideshow: the slideshow playback engine (the         *)
(* Slideshow React component, second half of                               *)
(* src/src/components/ExifOverlay.jsx) with its effects, timers and        *)
(* asynchronous completions, and its host: the App component with the key  *)
(* dispatcher hook, the Settings form and the configuration store.         *)
(*                                                                         *)
(* One action is one browser task: an event handler, a timer callback or   *)
(* the continuation of an awaited promise, together with the re-render it  *)
(* causes and the effects React runs after that render (an effect runs     *)
(* again exactly when one of its dependencies changed; its cleanup runs    *)
(* first).                                                                 *)
(***************************************************************************)
EXTENDS Integers, Sequences, FiniteSets, Bags, TLC

(***************************************************************************)
(* Bounds of the model.                                                    *)
(***************************************************************************)
MaxPhotos == 3      \* longest photo list the adapter returns
MaxPending == 2     \* transition-completion timeouts pending at once
MaxLoads == 2       \* loadPhotos calls in flight at once
MaxExif == 2        \* extractExifData calls in flight at once
MaxImages == 3      \* Image objects of preloadImage loading at once

(***************************************************************************)
(* Values.                                                                 *)
(***************************************************************************)
NoError == "null"
NoPhotosError == "No photos found"
LoadError == "Error loading photos"
NoExif == [idx |-> -1, url |-> 0]     \* exifData === null
UndefinedUrl == 0                     \* photos[i] for i out of range

NoBucket == 0              \* s3Bucket: '' (the mock adapter is used)
Sources == {1, 2}          \* distinct non-empty (bucket, prefix) pairs
Regions == {"", "us-east-1"}
Durations == {3, 10}       \* values of displayDuration, in seconds
DurationInputs == Durations \cup {301}   \* what the number field may hold
TransitionEffects == {"fade", "zoom"}

\* The configuration object: App's config state, the Slideshow's config
\* prop, the Settings form's formData and the data of the stored blob.
Configs ==
  [s3 : {NoBucket} \cup Sources, s3Region : Regions, shuffleMode : BOOLEAN,
   displayDuration : DurationInputs, transitionEffect : TransitionEffects,
   exifEnabled : BOOLEAN]

DEFAULT_CONFIG ==
  [s3 |-> NoBucket, s3Region |-> "us-east-1", shuffleMode |-> FALSE,
   displayDuration |-> 10, transitionEffect |-> "fade", exifEnabled |-> TRUE]

\* The configs each specification of the engine explores.
BucketConfigs ==
  {c \in Configs : /\ c.s3 # NoBucket
                   /\ c.s3Region = "us-east-1"
                   /\ c.displayDuration \in Durations
                   /\ c.transitionEffect = "fade"}
EngineConfigs ==
  {c \in BucketConfigs : c.s3 = 1 /\ ~c.shuffleMode /\ ~c.exifEnabled}
ReloadConfigs ==
  {c \in BucketConfigs : ~c.shuffleMode /\ ~c.exifEnabled /\ c.displayDuration = 10}
ExifConfigs ==
  {c \in BucketConfigs : c.s3 = 1 /\ ~c.shuffleMode /\ c.displayDuration = 10}

\* URL of the k-th photo of source s.
Url(s, k) == (s - 1) * (MaxPhotos + 1) + k

\* The list the source adapter resolves for source s when it holds n photos.
AdapterList(s, n) == [k \in 1..n |-> Url(s, k)]

VARIABLES
  config,           \* App: useState(DEFAULT_CONFIG), the Slideshow's config prop
  photos,           \* useState([])
  currentIndex,     \* useState(0)
  nextIndex,        \* useState(1)
  isTransitioning,  \* useState(false)
  exifData,         \* useState(null)
  isLoading,        \* useState(true)
  error,            \* useState(null)
  isPaused,         \* useState(false)
  loads,            \* loadPhotos calls awaiting the adapter, oldest first
  exifReqs,         \* extractExifData calls awaiting their result
  pending,          \* setTimeout(..., 1000) callbacks not yet run, oldest first
  intervals,        \* setInterval handles not cleared
  view,             \* App: useState('slideshow')
  formData,         \* Settings: useState(config), <<>> while not mounted
  stored,           \* localStorage item CONFIG_KEY, <<>> while absent
  listeners,        \* keydown listeners subscribed on window
  orphans,          \* pending transition timeouts of torn-down Slideshows
  \* History, read by the properties only:
  runStart,         \* currentIndex when the current run of next commands began
  runLen,           \* next commands of that run that have completed
  manualSincePause, \* a next/previous command was issued since the last togglePause
  toggleRun,        \* togglePause commands issued in succession from Playing
  dispatched,       \* what the listeners did with the last keydown event
  lastSubmit,       \* what the last submit of the Settings form did
  opened,           \* config and store when the Settings form was last opened
  called,           \* the last call of a service function, with what it returned
  preloadedImages,  \* useState({}): the entries index -> url
  images,           \* the Image objects of preloadImage that are loading
  failedImages,     \* history: indices whose load failed under these indices
  pair,             \* history: a previous command and the next command after it
  overlay           \* the ExifOverlay: its props, isVisible and hide timers

engineVars ==
  <<photos, currentIndex, nextIndex, isTransitioning, exifData, isLoading,
    error, isPaused, loads, exifReqs, pending, intervals>>

hostVars == <<view, formData, stored, orphans, lastSubmit>>

vars ==
  <<config, photos, currentIndex, nextIndex, isTransitioning, exifData,
    isLoading, error, isPaused, loads, exifReqs, pending, intervals,
    view, formData, stored, listeners, orphans,
    runStart, runLen, manualSincePause, toggleRun, dispatched, lastSubmit,
    opened, called, preloadedImages, images, failedImages, pair, overlay>>

\* photos[i] with JavaScript's 0-based indexing.
PhotoAt(list, i) ==
  IF i >= 0 /\ i < Len(list) THEN list[i + 1] ELSE UndefinedUrl

(***************************************************************************)
(* shuffleArray: Fisher-Yates on a copy; rnd[i] is the value of            *)
(* Math.floor(Math.random() * (i + 1)) drawn in iteration i.               *)
(***************************************************************************)
SwapOverwrites(list, i, j) ==
  [k \in 1..Len(list) |-> IF k = i + 1 THEN list[j + 1] ELSE list[k]]

Swap(list, i, j) ==
  [k \in 1..Len(list) |->
     IF k = i + 1 THEN list[j + 1] ELSE IF k = j + 1 THEN list[i + 1] ELSE list[k]]

RECURSIVE ShuffleFrom(_, _, _)
ShuffleFrom(shuffled, i, rnd) ==
  IF i > 0 THEN ShuffleFrom(Swap(shuffled, i, rnd[i]), i - 1, rnd) ELSE shuffled

RandomDraws(n) ==
  {rnd \in [1..(n - 1) -> 0..(n - 1)] : \A i \in 1..(n - 1) : rnd[i] <= i}

\* array: the argument as the call leaves it; shuffled: the array returned.
shuffleArray(array, rnd) ==
  LET shuffled == [k \in 1..Len(array) |-> array[k]]
  IN  [array |-> array, shuffled |-> ShuffleFrom(shuffled, Len(shuffled) - 1, rnd)]

(***************************************************************************)
(* Effects of the Slideshow, run after every render.                       *)
(***************************************************************************)

\* Dependency array of the auto-advance effect.
AutoAdvanceDeps ==
  <<Len(photos), currentIndex, config.displayDuration, isPaused, isTransitioning>>

\* Cleanup of the auto-advance effect: clearInterval(interval) of the
\* interval the previous run of the effect armed.
KeepInterval(armed) == armed

ClearInterval(armed) == <<>>

\* Body of the auto-advance effect. The interval's callback closes over the
\* goToNextPhoto of the render that armed it (photos.length, currentIndex);
\* elapsed counts the seconds since setInterval was called.
ArmIntervalPartlyElapsed(armed) ==
  IF Len(photos') = 0 \/ isPaused' \/ isTransitioning' THEN armed
  ELSE Append(armed, [cur |-> currentIndex', len |-> Len(photos'),
                      period |-> config'.displayDuration, elapsed |-> 1])

\* The body arming the interval also while paused.
ArmIntervalWhilePaused(armed) ==
  IF Len(photos') = 0 \/ isTransitioning' THEN armed
  ELSE Append(armed, [cur |-> currentIndex', len |-> Len(photos'),
                      period |-> config'.displayDuration, elapsed |-> 0])

ArmInterval(armed) ==
  IF Len(photos') = 0 \/ isPaused' \/ isTransitioning' THEN armed
  ELSE Append(armed, [cur |-> currentIndex', len |-> Len(photos'),
                      period |-> config'.displayDuration, elapsed |-> 0])

\* The effect arming no interval in the run after a transition has completed.
AutoAdvanceEffectOnce ==
  intervals' = IF AutoAdvanceDeps' = AutoAdvanceDeps THEN intervals
               ELSE IF isTransitioning THEN ClearInterval(intervals)
               ELSE ArmInterval(ClearInterval(intervals))

AutoAdvanceEffect ==
  intervals' = IF AutoAdvanceDeps' = AutoAdvanceDeps THEN intervals
               ELSE ArmInterval(ClearInterval(intervals))

\* The loadExifData effect; newPhotos: setPhotos put a new array in place.
\* The request is issued for photos[currentIndex] of that render and
\* nothing cancels it.
ExifDeps == <<currentIndex, config.exifEnabled>>

ExifEffect(newPhotos) ==
  /\ exifReqs' =
       IF ~newPhotos /\ ExifDeps' = ExifDeps THEN exifReqs
       ELSE IF Len(photos') = 0 \/ ~config'.exifEnabled THEN exifReqs
       ELSE exifReqs \cup {[idx |-> currentIndex',
                            url |-> PhotoAt(photos', currentIndex')]}
  /\ Cardinality(exifReqs') <= MaxExif

(***************************************************************************)
(* The keydown listeners on window. A listener is a closure: it is         *)
(* identified by its function and by the values it closed over.            *)
(***************************************************************************)

\* handleKeyDown and handleTVKey of useKeyboardNavigation; onMenu and onBack
\* are App's callbacks of the render with view v.
DispatcherListeners(v) ==
  {[name |-> n, view |-> v, len |-> 0, cur |-> 0, transitioning |-> FALSE] :
     n \in {"handleKeyDown", "handleTVKey"}}

\* handleKeyPress of the Slideshow; goToNextPhoto and goToPreviousPhoto are
\* the callbacks of the render with these photos.length, currentIndex and
\* isTransitioning.
KeyPressListener(len, cur, transitioning) ==
  [name |-> "handleKeyPress", view |-> "slideshow", len |-> len, cur |-> cur,
   transitioning |-> transitioning]

\* window.addEventListener('keydown', l), window.removeEventListener('keydown', l).
AddListener(subscribed, l) == subscribed \cup {l}

KeepListener(subscribed, l) == subscribed

RemoveListener(subscribed, l) == subscribed \ {l}

RECURSIVE RemoveAll(_, _)
RemoveAll(subscribed, ls) ==
  IF ls = {} THEN subscribed
  ELSE LET l == CHOOSE x \in ls : TRUE
       IN  RemoveAll(RemoveListener(subscribed, l), ls \ {l})

\* The effect of useKeyboardNavigation in App: its callbacks are new
\* functions in every render of App, so it runs again after each of them.
DispatcherEffect(subscribed) ==
  IF view' = view /\ config' = config THEN subscribed
  ELSE RemoveAll(subscribed, DispatcherListeners(view))
         \cup DispatcherListeners(view')

\* Dependencies of the Slideshow's keyboard effect: the callbacks, which
\* change with their own dependencies.
KeyboardDeps == <<Len(photos), currentIndex, isTransitioning>>

\* The keyboard effect of the Slideshow: mount, update and unmount.
KeyboardEffect(subscribed) ==
  LET old == KeyPressListener(Len(photos), currentIndex, isTransitioning)
      new == KeyPressListener(Len(photos'), currentIndex', isTransitioning')
  IN  CASE view = "slideshow" /\ view' = "slideshow" ->
             IF KeyboardDeps' = KeyboardDeps THEN subscribed
             ELSE AddListener(RemoveListener(subscribed, old), new)
        [] view = "slideshow" /\ view' # "slideshow" ->
             RemoveListener(subscribed, old)
        [] view # "slideshow" /\ view' = "slideshow" ->
             AddListener(subscribed, new)
        [] OTHER -> subscribed

ListenerEffects == listeners' = KeyboardEffect(DispatcherEffect(listeners))

Effects(newPhotos) ==
  AutoAdvanceEffect /\ ExifEffect(newPhotos) /\ ListenerEffects

(***************************************************************************)
(* Callbacks of the Slideshow. len, cur and transitioning are the values   *)
(* of photos.length, currentIndex and isTransitioning the callback closed  *)
(* over.                                                                   *)
(***************************************************************************)
\* The delay of both setTimeout calls, in milliseconds.
TransitionWindow == 1000

goToNextPhotoNoWrap(len, cur) ==
  IF len = 0 THEN UNCHANGED <<isTransitioning, nextIndex, pending>>
  ELSE LET next == cur + 1 IN
       /\ Len(pending) < MaxPending
       /\ isTransitioning' = TRUE
       /\ nextIndex' = next
       /\ pending' = Append(pending, [target |-> next, len |-> len, kind |-> "next",
                                      delay |-> TransitionWindow])

goToNextPhoto(len, cur) ==
  IF len = 0 THEN UNCHANGED <<isTransitioning, nextIndex, pending>>
  ELSE LET next == (cur + 1) % len IN
       /\ Len(pending) < MaxPending
       /\ isTransitioning' = TRUE
       /\ nextIndex' = next
       /\ pending' = Append(pending, [target |-> next, len |-> len, kind |-> "next",
                                      delay |-> TransitionWindow])

goToPreviousPhoto(len, cur, transitioning) ==
  IF len = 0 \/ transitioning THEN UNCHANGED <<isTransitioning, nextIndex, pending>>
  ELSE LET prev == IF cur = 0 THEN len - 1 ELSE cur - 1 IN
       /\ Len(pending) < MaxPending
       /\ isTransitioning' = TRUE
       /\ nextIndex' = prev
       /\ pending' = Append(pending, [target |-> prev, len |-> len,
                                      kind |-> "previous",
                                      delay |-> TransitionWindow])

\* The callback both setTimeout calls schedule, t the timeout's closure.
completeTransitionKeepsNext(t) ==
  /\ currentIndex' = t.target
  /\ nextIndex' = nextIndex
  /\ isTransitioning' = FALSE

\* The callback leaving isTransitioning set.
completeTransitionKeepsFlag(t) ==
  /\ currentIndex' = t.target
  /\ nextIndex' = (t.target + 1) % t.len
  /\ isTransitioning' = isTransitioning

completeTransition(t) ==
  /\ currentIndex' = t.target
  /\ nextIndex' = (t.target + 1) % t.len
  /\ isTransitioning' = FALSE

\* The Slideshow's keydown listener.
NextKeys == {"ArrowRight", "MediaTrackNext"}
PreviousKeys == {"ArrowLeft", "MediaTrackPrevious"}
PauseKeys == {" ", "Enter", "MediaPlayPause"}

handleKeyPress(key) ==
  CASE key \in NextKeys ->
         goToNextPhoto(Len(photos), currentIndex) /\ UNCHANGED isPaused
    [] key \in PreviousKeys ->
         goToPreviousPhoto(Len(photos), currentIndex, isTransitioning)
           /\ UNCHANGED isPaused
    [] key \in PauseKeys ->
         isPaused' = ~isPaused /\ UNCHANGED <<isTransitioning, nextIndex, pending>>
    [] OTHER -> UNCHANGED <<isTransitioning, nextIndex, pending, isPaused>>

(***************************************************************************)
(* The key dispatcher: useKeyboardNavigation, called by App with onMenu    *)
(* and onBack.                                                             *)
(***************************************************************************)

\* key and keyCode of the keys of a keyboard and of the TV remotes.
KeyboardKeys ==
  {<<"ArrowUp", 38>>, <<"ArrowDown", 40>>, <<"ArrowLeft", 37>>,
   <<"ArrowRight", 39>>, <<"Enter", 13>>, <<" ", 32>>, <<"Escape", 27>>,
   <<"Backspace", 8>>, <<"F1", 112>>, <<"ContextMenu", 93>>, <<"Alt", 18>>,
   <<"MediaPlayPause", 179>>, <<"MediaPlay", 415>>, <<"MediaPause", 19>>,
   <<"MediaTrackNext", 176>>, <<"MediaTrackPrevious", 177>>, <<"a", 65>>}

RemoteKeys ==
  {<<"GoBack", 461>>, <<"Unidentified", 1001>>, <<"XF86Back", 10009>>,
   <<"Unidentified", 10133>>}

KeyTable == KeyboardKeys \cup RemoteKeys

\* event.keyName, where the platform provides it.
KeyNames == {<<10009, "Back">>, <<10133, "Menu">>}

Tags == {"BODY", "INPUT", "SELECT", "BUTTON"}

\* window.webOS and window.tizen at the time of the event.
Platforms == {<<FALSE, FALSE>>, <<TRUE, FALSE>>, <<FALSE, TRUE>>}

\* The keydown events: the keys of a keyboard in a browser without the TV
\* platform objects (handleTVKey looks at keyCode 461 and 1001 and at
\* keyName only), the keys of the remotes with and without them.
Events ==
  {[key |-> k[1], keyCode |-> k[2], keyName |-> "undefined", tag |-> t,
    webOS |-> FALSE, tizen |-> FALSE] : k \in KeyboardKeys, t \in Tags}
  \cup
  {[key |-> k[1], keyCode |-> k[2], keyName |-> "undefined", tag |-> t,
    webOS |-> p[1], tizen |-> p[2]] :
      k \in RemoteKeys, t \in Tags, p \in Platforms}
  \cup
  {[key |-> (CHOOSE r \in RemoteKeys : r[2] = n[1])[1], keyCode |-> n[1],
    keyName |-> n[2], tag |-> t, webOS |-> FALSE, tizen |-> TRUE] :
      n \in KeyNames, t \in Tags}

KeyEvent(key) ==
  [key |-> key, keyCode |-> (CHOOSE k \in KeyTable : k[1] = key)[2],
   keyName |-> "undefined", tag |-> "BODY", webOS |-> FALSE, tizen |-> FALSE]

\* The callbacks App passes to the hook.
Callbacks == {"onMenu", "onBack"}

\* if (callback) callback(): supplied are the callbacks the hook was given.
CallOf(callback, supplied) == IF callback \in supplied THEN <<callback>> ELSE <<>>

Call(callback) == CallOf(callback, Callbacks)

navigationKeys ==
  {"ArrowUp", "ArrowDown", "ArrowLeft", "ArrowRight", "Enter", " ", "Escape",
   "Backspace"}

\* The test of event.target.tagName.
NotInInput(e) == e.tag # "INPUT"

NotInField(e) == e.tag # "INPUT" /\ e.tag # "SELECT"

\* handleKeyDown of a hook that was given the callbacks supplied: whether it
\* called preventDefault and the callbacks it invoked, in order.
handleKeyDownWith(e, supplied) ==
  LET navigation == e.key \in navigationKeys /\ NotInField(e)
  IN  IF \/ e.key = "F1" \/ e.key = "ContextMenu"
         \/ e.keyCode = 1001 \/ e.keyCode = 18
      THEN [prevented |-> TRUE, calls |-> CallOf("onMenu", supplied)]
      ELSE IF \/ e.key = "Escape" \/ e.key = "XF86Back"
              \/ e.keyCode = 461 \/ e.keyCode = 10009
      THEN [prevented |-> navigation, calls |-> CallOf("onBack", supplied)]
      ELSE IF e.key \in {" ", "MediaPlayPause", "MediaPlay", "MediaPause"}
      THEN [prevented |-> navigation,
            calls |-> IF e.key = "MediaPlay" /\ "onPlay" \in supplied
                      THEN CallOf("onPlay", supplied)
                      ELSE IF e.key = "MediaPause" /\ "onPause" \in supplied
                      THEN CallOf("onPause", supplied)
                      ELSE IF "onPause" \in supplied
                      THEN CallOf("onPause", supplied)
                      ELSE CallOf("onPlay", supplied)]
      ELSE [prevented |-> navigation, calls |-> <<>>]

\* handleKeyDown of the hook as App calls it.
handleKeyDown(e) == handleKeyDownWith(e, Callbacks)

\* handleTVKey: the callbacks it invoked, in order.
handleTVKey(e) ==
  (IF e.webOS
   THEN CASE e.keyCode = 461 -> Call("onBack")
          [] e.keyCode = 1001 -> Call("onMenu")
          [] OTHER -> <<>>
   ELSE <<>>)
  \o
  (IF e.tizen
   THEN CASE e.keyName \in {"Back", "Return"} -> Call("onBack")
          [] e.keyName \in {"Menu", "Tools"} -> Call("onMenu")
          [] OTHER -> <<>>
   ELSE <<>>)

\* onMenu toggling the view set so far in the task instead of the view of
\* the last render.
RECURSIVE ViewAfterToggling(_, _)
ViewAfterToggling(calls, v) ==
  IF calls = <<>> THEN v
  ELSE ViewAfterToggling(Tail(calls),
         CASE Head(calls) = "onMenu" ->
                IF v = "slideshow" THEN "settings" ELSE "slideshow"
           [] Head(calls) = "onBack" ->
                IF v = "settings" THEN "slideshow" ELSE v
           [] OTHER -> v)

\* App's onMenu and onBack. Both close over the view of the last render;
\* v is the view set so far in this task.
RECURSIVE ViewAfter(_, _)
ViewAfter(calls, v) ==
  IF calls = <<>> THEN v
  ELSE ViewAfter(Tail(calls),
         CASE Head(calls) = "onMenu" ->
                IF view = "slideshow" THEN "settings" ELSE "slideshow"
           [] Head(calls) = "onBack" ->
                IF view = "settings" THEN "slideshow" ELSE v
           [] OTHER -> v)

\* handleKeyDown of the Settings form (onKeyDown of its root element):
\* whether it calls onCancel.
SettingsCancels(e) ==
  /\ e.tag # "BODY"
  /\ e.key \in {"Escape", "Backspace"}
  /\ (e.tag # "INPUT" \/ e.key = "Escape")

(***************************************************************************)
(* History variables. A run is a sequence of next commands (key or timer), *)
(* each issued with no transition pending and each completed before the    *)
(* following one; anything else that moves the index ends the run.         *)
(***************************************************************************)
NoRun == -1

\* The alerts of a submit of the Settings form.
RequiredAlert == "S3 Bucket Name and Region are required"
SaveAlert == "Failed to save configuration"
NoAlert == ""

\* The operations that end the mounted Slideshow.
Unmounts == {"Unmount", "PageReloads"}

NotOpened == <<>>

NoToggleRun == [count |-> 0, elapsed |-> 0, cur |-> 0, next |-> 0]

(***************************************************************************)
(* The preload effect of the Slideshow. images.followed tells whether the  *)
(* specification follows the Image objects; where it does not, the three   *)
(* variables of the preload stand still. An Image is the pair of the index *)
(* and the url preloadImage was called with.                               *)
(***************************************************************************)
NotFollowed == [followed |-> FALSE, loading |-> EmptyBag]
NoneLoading == [followed |-> TRUE, loading |-> EmptyBag]
NoImage == [index |-> -1, url |-> UndefinedUrl]

\* setPreloadedImages(prev => ({ ...prev, [index]: url }))
setPreloadedImages(prev, img) ==
  {e \in prev : e.index # img.index} \cup {img}

\* preloadImage(url, index) under the entries the render closed over: the
\* Image objects it creates.
preloadImage(url, index, entries) ==
  IF \E e \in entries : e.index = index THEN EmptyBag
  ELSE SetToBag({[index |-> index, url |-> url]})

\* The body of the effect after a render with list, cur, next and entries.
PreloadEffect(list, cur, next, entries) ==
  IF Len(list) = 0 THEN EmptyBag
  ELSE preloadImage(PhotoAt(list, cur), cur, entries)
       (+) (IF PhotoAt(list, next) # UndefinedUrl
            THEN preloadImage(PhotoAt(list, next), next, entries)
            ELSE EmptyBag)

\* What the task of op does to the preload; img is the Image whose load or
\* error event the task handles, NoImage in every other task. The effect
\* runs again when photos, currentIndex, nextIndex or preloadedImages is
\* another value than in the render before.
Preload(op, img) ==
  IF ~images.followed
  THEN UNCHANGED <<preloadedImages, images, failedImages>>
  ELSE IF op \in Unmounts \/ view' # "slideshow" \/ view # "slideshow"
  THEN /\ preloadedImages' = {}
       /\ images' = NoneLoading
       /\ failedImages' = {}
  ELSE LET entries == IF op = "ImageLoads"
                      THEN setPreloadedImages(preloadedImages, img)
                      ELSE preloadedImages
           loading == IF img = NoImage THEN images.loading
                      ELSE images.loading (-) SetToBag({img})
           runs == \/ op \in {"ImageLoads", "LoadResolves"}
                   \/ currentIndex' # currentIndex
                   \/ nextIndex' # nextIndex
           created == IF runs
                      THEN PreloadEffect(photos', currentIndex', nextIndex',
                                         entries)
                      ELSE EmptyBag
       IN  /\ BagCardinality(loading (+) created) <= MaxImages
           /\ preloadedImages' = entries
           /\ images' = [followed |-> TRUE, loading |-> loading (+) created]
           /\ failedImages' =
                IF \/ currentIndex' # currentIndex \/ nextIndex' # nextIndex
                   \/ op = "LoadResolves"
                THEN {}
                ELSE failedImages
                       \cup (IF op = "ImageFails" THEN {img.index} ELSE {})

(***************************************************************************)
(* The ExifOverlay. overlay.followed tells whether the specification       *)
(* follows the overlay; where it does not, the variable stands still.      *)
(* overlay.config holds autoHide and autoHideDelay of the prop config,     *)
(* that is of config.exifDisplay; timers holds the delays of the           *)
(* setTimeout callbacks of the auto-hide effect that are not cleared and   *)
(* have not run; arrived tells that the effect ran in the last task.       *)
(***************************************************************************)
DefaultPolicy == [autoHide |-> FALSE, autoHideDelay |-> 5]

NoOverlay ==
  [followed |-> FALSE, config |-> DefaultPolicy, mounted |-> FALSE,
   isVisible |-> FALSE, timers |-> <<>>, arrived |-> FALSE]

\* The Slideshow renders its slides, not the loading or the error screen.
SlidesRendered ==
  view = "slideshow" /\ ~isLoading /\ error = NoError /\ Len(photos) # 0

\* config.exifDisplay.enabled && exifData && <ExifOverlay ... />
OverlayRendered == SlidesRendered /\ config.exifEnabled /\ exifData # NoExif

\* The cleanup of the auto-hide effect: clearTimeout(timer).
ClearHideTimerKeeps(timers) == timers

ClearHideTimer(timers) == <<>>

\* The body of the auto-hide effect under the prop policy: setIsVisible(true)
\* and, with autoHide, the setTimeout of autoHideDelay * 1000 ms.
AutoHideEffect(policy, timers) ==
  [isVisible |-> TRUE,
   timers |-> IF ~policy.autoHide THEN timers
              ELSE Append(timers, policy.autoHideDelay * 1000)]

\* What the task of op does to the overlay when the Slideshow renders it
\* with the prop policy afterwards. The effect runs after the first render
\* and again when exifData is another object (each setExifData of a record
\* stores a new object) or autoHide or autoHideDelay is another value.
OverlayAfter(op, policy) ==
  LET runs == \/ ~overlay.mounted
              \/ op = "ExifResolves"
              \/ policy.autoHide # overlay.config.autoHide
              \/ policy.autoHideDelay # overlay.config.autoHideDelay
      ran == AutoHideEffect(policy, ClearHideTimer(overlay.timers))
  IN  IF runs
      THEN [followed |-> TRUE, config |-> policy, mounted |-> TRUE,
            isVisible |-> ran.isVisible, timers |-> ran.timers,
            arrived |-> TRUE]
      ELSE [overlay EXCEPT !.arrived = FALSE]

\* The overlay is not rendered: the cleanup of its effect has run and its
\* state is gone.
OverlayGone(policy) ==
  [followed |-> TRUE, config |-> policy, mounted |-> FALSE,
   isVisible |-> FALSE, timers |-> ClearHideTimer(overlay.timers),
   arrived |-> FALSE]

ExifOverlay(op) ==
  IF ~overlay.followed THEN UNCHANGED overlay
  ELSE overlay' = IF OverlayRendered' THEN OverlayAfter(op, overlay.config)
                  ELSE OverlayGone(overlay.config)

\* A pair: a previous command issued in Ready on a list of two or more
\* photos (stage 1), completed (2), followed by a next command of a key or
\* of the timer (3), completed (4). cur and next are currentIndex and
\* nextIndex when the previous command was issued. Time may pass and the
\* pause may be toggled between the two; any other operation ends the pair.
NoPair == [stage |-> 0, cur |-> 0, next |-> 0]

Histories(op) ==
  /\ UNCHANGED called
  /\ pair' =
       CASE /\ op = "KeyPrevious" /\ Len(photos) >= 2 /\ ~isTransitioning
            /\ pending = <<>> /\ error = NoError /\ ~isLoading
            /\ currentIndex < Len(photos) ->
              [stage |-> 1, cur |-> currentIndex, next |-> nextIndex]
         [] op = "TransitionCompletes" /\ pair.stage \in {1, 3} ->
              [pair EXCEPT !.stage = @ + 1]
         [] op \in {"KeyNext", "TimerFires"} /\ pair.stage = 2 ->
              [pair EXCEPT !.stage = 3]
         [] op \in {"Tick", "togglePause"} /\ pair.stage = 2 -> pair
         [] OTHER -> NoPair
  /\ opened' =
       CASE view # "settings" /\ view' = "settings" ->
              <<[config |-> config, stored |-> stored]>>
         [] op = "PageReloads" -> NotOpened
         [] /\ op = "Submit" /\ lastSubmit'[1].saveConfig
            /\ lastSubmit'[1].alert = NoAlert -> NotOpened
         [] OTHER -> opened
  /\ manualSincePause' =
       CASE op \in {"togglePause"} \cup Unmounts -> FALSE
         [] op \in {"KeyNext", "KeyPrevious"} -> TRUE
         [] OTHER -> manualSincePause
  /\ toggleRun' =
       CASE op = "togglePause" /\ toggleRun.count = 1 ->
              [toggleRun EXCEPT !.count = 2]
         [] /\ op = "togglePause" /\ toggleRun.count # 1
            /\ Len(photos) > 0 /\ ~isPaused /\ ~isTransitioning
            /\ Len(intervals) = 1 ->
              [count |-> 1, elapsed |-> intervals[1].elapsed,
               cur |-> currentIndex, next |-> nextIndex]
         [] OTHER -> NoToggleRun
  /\ LET issued == Len(pending') = Len(pending) + 1
         issuedNext == issued /\ pending'[Len(pending')].kind = "next"
         completed == Len(pending') = Len(pending) - 1
     IN  CASE op \in Unmounts ->
                runStart' = NoRun /\ runLen' = 0
           [] op \notin Unmounts /\ issuedNext /\ pending = <<>> ->
                IF runStart = NoRun \/ runLen >= Len(photos)
                THEN runStart' = currentIndex /\ runLen' = 0
                ELSE UNCHANGED <<runStart, runLen>>
           [] op \notin Unmounts /\ issued /\ ~(issuedNext /\ pending = <<>>) ->
                runStart' = NoRun /\ runLen' = 0
           [] op \notin Unmounts /\ ~issued /\ photos' # photos ->
                runStart' = NoRun /\ runLen' = 0
           [] /\ op \notin Unmounts /\ ~issued /\ photos' = photos /\ completed
              /\ runStart # NoRun ->
                runStart' = runStart /\ runLen' = runLen + 1
           [] OTHER -> UNCHANGED <<runStart, runLen>>

Observe(op) == Histories(op) /\ Preload(op, NoImage) /\ ExifOverlay(op)

(***************************************************************************)
(* Mounting and unmounting the Slideshow.                                  *)
(***************************************************************************)

\* A loadPhotos call; latest: no later call has been issued.
NewLoad(c) == [s3 |-> c.s3, shuffleMode |-> c.shuffleMode, latest |-> TRUE]

Superseded(calls) == [k \in 1..Len(calls) |-> [calls[k] EXCEPT !.latest = FALSE]]

\* The state of a Slideshow instance that has not rendered yet.
FreshState ==
  /\ photos' = <<>>
  /\ currentIndex' = 0
  /\ nextIndex' = 1
  /\ isTransitioning' = FALSE
  /\ exifData' = NoExif
  /\ isLoading' = TRUE
  /\ error' = NoError
  /\ isPaused' = FALSE
  /\ exifReqs' = {}
  /\ pending' = <<>>

\* First render of a new instance and its effects: loadPhotos is called;
\* with no photos the other effects return at once.
MountSlideshow ==
  /\ FreshState
  /\ loads' = <<NewLoad(config')>>
  /\ intervals' = <<>>
  /\ UNCHANGED orphans

\* The instance is unmounted: the cleanups of its effects run. Its state is
\* gone. The promises of its loadPhotos and loadExifData calls settle into
\* setters of an unmounted component, which do nothing; its setTimeout
\* callbacks stay scheduled.
UnmountSlideshow ==
  /\ orphans + Len(pending) <= MaxPending
  /\ orphans' = orphans + Len(pending)
  /\ FreshState
  /\ loads' = <<>>
  /\ intervals' = ClearInterval(intervals)

(***************************************************************************)
(* Initial state: App has rendered with its configuration and the first    *)
(* render of the Slideshow and its effects have run.                       *)
(***************************************************************************)
NoDispatch == <<>>
NoSubmit == <<>>
NoForm == <<>>
NoBlob == <<>>
NoCall == <<>>

InitRest ==
  /\ photos = <<>>
  /\ currentIndex = 0
  /\ nextIndex = 1
  /\ isTransitioning = FALSE
  /\ exifData = NoExif
  /\ isLoading = TRUE
  /\ error = NoError
  /\ isPaused = FALSE
  /\ exifReqs = {}
  /\ pending = <<>>
  /\ intervals = <<>>
  /\ view = "slideshow"
  /\ formData = NoForm
  /\ listeners = DispatcherListeners("slideshow")
                   \cup {KeyPressListener(0, 0, FALSE)}
  /\ orphans = 0
  /\ runStart = NoRun
  /\ runLen = 0
  /\ manualSincePause = FALSE
  /\ toggleRun = NoToggleRun
  /\ dispatched = NoDispatch
  /\ lastSubmit = NoSubmit
  /\ opened = NotOpened
  /\ called = NoCall
  /\ preloadedImages = {}
  /\ failedImages = {}
  /\ pair = NoPair

\* The store is empty and App holds one of configs.
InitIn(configs) ==
  /\ config \in configs
  /\ loads = <<NewLoad(config)>>
  /\ stored = NoBlob
  /\ InitRest
  /\ images = NotFollowed
  /\ overlay = NoOverlay

(***************************************************************************)
(* Actions.                                                                *)
(***************************************************************************)

\* What the properties read of a keydown event and of its dispatch.
Dispatch(e) ==
  [navigation |-> e.key \in navigationKeys, tag |-> e.tag,
   prevented |-> handleKeyDown(e).prevented,
   calls |-> handleKeyDown(e).calls \o handleTVKey(e)]

OpOf(e, newView) ==
  CASE view = "slideshow" /\ newView # "slideshow" -> "Unmount"
    [] view = "slideshow" /\ newView = "slideshow" /\ e.key \in NextKeys -> "KeyNext"
    [] view = "slideshow" /\ newView = "slideshow" /\ e.key \in PreviousKeys ->
         "KeyPrevious"
    [] view = "slideshow" /\ newView = "slideshow" /\ e.key \in PauseKeys ->
         "togglePause"
    [] OTHER -> "Keydown"

\* A keydown event: the Settings form's handler, then the listeners on
\* window, then the render with the view they set. The Slideshow holds no
\* form control, so its events have the body as target; no key of KeyTable
\* is both a command of the dispatcher and a command of the Slideshow.
Keydown(e) ==
  LET newView ==
        ViewAfter(Dispatch(e).calls,
                  IF view = "settings" /\ SettingsCancels(e)
                  THEN "slideshow" ELSE view)
  IN  /\ view = "slideshow" => e.tag = "BODY"
      /\ dispatched' = <<Dispatch(e)>>
      /\ view' = newView
      /\ UNCHANGED <<config, stored, lastSubmit>>
      /\ CASE view = "slideshow" /\ newView = "slideshow" ->
                /\ handleKeyPress(e.key)
                /\ UNCHANGED <<photos, currentIndex, exifData, isLoading, error,
                               loads, formData, orphans>>
                /\ Effects(FALSE)
           [] view = "slideshow" /\ newView # "slideshow" ->
                /\ UnmountSlideshow
                /\ formData' = <<config>>
                /\ ListenerEffects
           [] view # "slideshow" /\ newView = "slideshow" ->
                /\ MountSlideshow
                /\ formData' = NoForm
                /\ ListenerEffects
           [] OTHER ->
                /\ UNCHANGED <<engineVars, formData, orphans>>
                /\ ListenerEffects
      /\ Observe(OpOf(e, newView))

\* keydown ArrowRight on the Slideshow.
KeyNext == view = "slideshow" /\ Keydown(KeyEvent("ArrowRight"))

\* keydown ArrowLeft on the Slideshow.
KeyPrevious == view = "slideshow" /\ Keydown(KeyEvent("ArrowLeft"))

\* keydown space on the Slideshow.
togglePause == view = "slideshow" /\ Keydown(KeyEvent(" "))

\* The timeout callback of a torn-down Slideshow runs: its setters belong
\* to an unmounted component and change nothing.
OrphanTimeoutRuns ==
  /\ orphans > 0
  /\ orphans' = orphans - 1
  /\ UNCHANGED <<config, engineVars, view, formData, stored, listeners,
                 lastSubmit, dispatched>>
  /\ Observe("OrphanTimeoutRuns")

\* One second passes for the armed interval. Every pending timeout was
\* scheduled before the interval was armed (scheduling one clears it) and
\* has less than a second left, so it runs first.
Tick ==
  /\ intervals # <<>>
  /\ pending = <<>>
  /\ \A k \in 1..Len(intervals) : intervals[k].elapsed < intervals[k].period
  /\ intervals' =
       [k \in 1..Len(intervals) |-> [intervals[k] EXCEPT !.elapsed = @ + 1]]
  /\ UNCHANGED <<config, photos, currentIndex, nextIndex, isTransitioning,
                 exifData, isLoading, error, isPaused, loads, exifReqs, pending,
                 listeners, hostVars, dispatched>>
  /\ Observe("Tick")

\* An armed interval fires, displayDuration seconds after it was armed.
TimerFires ==
  /\ pending = <<>>
  /\ \E k \in 1..Len(intervals) :
       /\ intervals[k].elapsed = intervals[k].period
       /\ goToNextPhoto(intervals[k].len, intervals[k].cur)
  /\ UNCHANGED <<config, photos, currentIndex, exifData, isLoading, error,
                 isPaused, loads, hostVars, dispatched>>
  /\ Effects(FALSE)
  /\ Observe("TimerFires")

\* The oldest pending transition timeout runs (all have the same delay).
TransitionCompletes ==
  /\ pending # <<>>
  /\ completeTransition(Head(pending))
  /\ pending' = Tail(pending)
  /\ UNCHANGED <<config, photos, exifData, isLoading, error, isPaused, loads,
                 hostVars, dispatched>>
  /\ Effects(FALSE)
  /\ Observe("TransitionCompletes")

\* App renders the mounted Slideshow with another config. The loadPhotos
\* effect runs again when bucket, region, prefix or shuffleMode changed.
ConfigChanges(configs) ==
  \E c \in configs :
    /\ view = "slideshow"
    /\ c # config
    /\ config' = c
    /\ IF \/ c.s3 # config.s3 \/ c.s3Region # config.s3Region
          \/ c.shuffleMode # config.shuffleMode
       THEN /\ Len(loads) < MaxLoads
            /\ isLoading' = TRUE
            /\ error' = NoError
            /\ loads' = Append(Superseded(loads), NewLoad(c))
       ELSE UNCHANGED <<isLoading, error, loads>>
    /\ UNCHANGED <<photos, currentIndex, nextIndex, isTransitioning, exifData,
                   isPaused, pending, hostVars, dispatched>>
    /\ Effects(FALSE)
    /\ Observe("ConfigChanges")

RemoveAt(seq, k) == SubSeq(seq, 1, k - 1) \o SubSeq(seq, k + 1, Len(seq))

\* The adapter call of the k-th loadPhotos in flight rejects: the catch branch.
LoadThrowsAt(k) ==
  /\ loads' = RemoveAt(loads, k)
  /\ error' = LoadError
  /\ isLoading' = FALSE
  /\ UNCHANGED <<config, photos, currentIndex, nextIndex, isTransitioning,
                 exifData, isPaused, pending, hostVars, dispatched>>
  /\ Effects(FALSE)
  /\ Observe("LoadThrows")

LoadThrows == \E k \in 1..Len(loads) : LoadThrowsAt(k)

\* The adapter call of the k-th loadPhotos in flight resolves with an empty
\* list.
LoadResolvesEmptyAt(k) ==
  /\ loads' = RemoveAt(loads, k)
  /\ error' = NoPhotosError
  /\ isLoading' = FALSE
  /\ UNCHANGED <<config, photos, currentIndex, nextIndex, isTransitioning,
                 exifData, isPaused, pending, hostVars, dispatched>>
  /\ Effects(FALSE)
  /\ Observe("LoadResolvesEmpty")

LoadResolvesEmpty == \E k \in 1..Len(loads) : LoadResolvesEmptyAt(k)

\* The adapter call of the k-th loadPhotos in flight resolves with n >= 1
\* photos.
LoadResolvesAt(k, n) ==
  LET photoList == AdapterList(loads[k].s3, n) IN
  /\ loads' = RemoveAt(loads, k)
  /\ IF loads[k].shuffleMode
     THEN \E rnd \in RandomDraws(n) :
            photos' = shuffleArray([j \in 1..n |-> photoList[j]], rnd).shuffled
     ELSE photos' = photoList
  /\ isLoading' = FALSE
  /\ UNCHANGED <<config, currentIndex, nextIndex, isTransitioning,
                 exifData, isPaused, pending, error, hostVars, dispatched>>
  /\ Effects(TRUE)
  /\ Observe("LoadResolves")

LoadResolves == \E k \in 1..Len(loads), n \in 1..MaxPhotos : LoadResolvesAt(k, n)

\* An extractExifData call in flight resolves, with a record or with null.
ExifResolvesFor(r, found) ==
  /\ r \in exifReqs
  /\ exifReqs' = exifReqs \ {r}
  /\ exifData' = IF found /\ r.url # UndefinedUrl THEN r ELSE NoExif
  /\ UNCHANGED <<config, photos, currentIndex, nextIndex, isTransitioning,
                 isLoading, error, isPaused, loads, pending, intervals,
                 listeners, hostVars, dispatched>>
  /\ Observe("ExifResolves")

\* What the three requests of an extraction do: the fetch of the image,
\* exifr.parse (it throws, finds nothing, finds tags, finds tags with GPS
\* coordinates) and the reverse geocoding request.
ExifOutcomes ==
  [fetch : {"rejects", "ok"}, parse : {"throws", "nothing", "tags", "gps"},
   geocode : {"rejects", "not ok", "named", "unnamed"}]

\* getLocationName: every failure ends in its catch branch.
getLocationName(geocode) == IF geocode = "named" THEN "name" ELSE "null"

\* extractExifData: whether it threw and the record it returned (none:
\* null).
extractExifDataRethrows(o) ==
  [threw |-> o.fetch = "rejects" \/ o.parse = "throws", data |-> <<>>]

extractExifData(o) ==
  IF o.fetch = "rejects" \/ o.parse = "throws" THEN [threw |-> FALSE, data |-> <<>>]
  ELSE IF o.parse = "nothing" THEN [threw |-> FALSE, data |-> <<>>]
  ELSE [threw |-> FALSE,
        data |-> <<[gps |-> o.parse = "gps",
                    locationName |-> IF o.parse = "gps"
                                     THEN getLocationName(o.geocode)
                                     ELSE "undefined"]>>]

\* What loadExifData can find when extractExifData settles: a record
\* (TRUE) or null; if it throws, the catch branch sets null.
Extractions ==
  {~extractExifData(o).threw /\ extractExifData(o).data # <<>> : o \in ExifOutcomes}

ExifResolves == \E r \in exifReqs, found \in Extractions : ExifResolvesFor(r, found)

(***************************************************************************)
(* The Settings form and the settings store.                               *)
(***************************************************************************)
\* JavaScript values that are not objects of the program. Every value of
\* the store is a record, so that any two of them can be compared.
Null == [type |-> "null"]
Undefined == [type |-> "undefined"]
Primitive(p) == [type |-> "primitive", value |-> p]

IsObject(v) == "type" \notin DOMAIN v

CONFIG_VERSION == "1.0"

\* The spread { ...defaults, ...saved }.
Spread(defaults, saved) ==
  [k \in DOMAIN defaults \cup DOMAIN saved |->
     IF k \in DOMAIN saved THEN saved[k] ELSE defaults[k]]

\* new Date().toISOString() at the time of a save.
Timestamps == {"t1", "t2"}

\* The object saveConfig wraps the config in.
configWrapper(c, now) == [version |-> CONFIG_VERSION, data |-> c, savedAt |-> now]

\* A string of localStorage: the JSON text of a value, a text that is not
\* JSON, or the empty string. The values of the model are strings,
\* numbers, booleans, null and plain objects of them, which JSON.parse gives
\* back as JSON.stringify found them.
JSONstringify(v) == [text |-> "json", value |-> v]
Garbage == [text |-> "garbage"]
EmptyText == [text |-> ""]

\* JSON.parse: the value, or a SyntaxError.
JSONparse(t) ==
  IF t.text = "json" THEN [threw |-> FALSE, value |-> t.value]
  ELSE [threw |-> TRUE, value |-> Undefined]

\* obj[k]
Get(obj, k) == IF k \in DOMAIN obj THEN obj[k] ELSE Undefined

\* The falsy values among the values of the store.
IsTruthy(v) == v \notin {Null, Undefined, Primitive("0")}

\* migrateConfig: oldConfig.data || oldConfig
migrateConfig(oldConfig) ==
  IF IsTruthy(Get(oldConfig, "data")) THEN oldConfig.data ELSE oldConfig

\* loadConfig on the item of the store (NoBlob: getItem returns null);
\* getItemThrows: localStorage is not accessible. Reading a property of
\* null throws a TypeError; every exception ends in the catch branch.
loadConfigWholeBlob(item, getItemThrows) ==
  IF getItemThrows \/ item = NoBlob THEN Null ELSE JSONparse(item[1]).value

loadConfig(item, getItemThrows) ==
  IF getItemThrows THEN Null
  ELSE IF item = NoBlob \/ item[1] = EmptyText THEN Null
  ELSE IF JSONparse(item[1]).threw THEN Null
  ELSE LET parsed == JSONparse(item[1]).value IN
       IF parsed = Null THEN Null
       ELSE IF ~("version" \in DOMAIN parsed /\ parsed.version = CONFIG_VERSION)
       THEN migrateConfig(parsed)
       ELSE Get(parsed, "data")

\* App's loadConfiguration: setConfig({ ...DEFAULT_CONFIG, ...savedConfig })
\* if savedConfig is truthy; the spread of a number adds nothing.
LoadedConfig(item) ==
  LET savedConfig == loadConfig(item, FALSE) IN
  IF IsTruthy(savedConfig) /\ IsObject(savedConfig)
  THEN Spread(DEFAULT_CONFIG, savedConfig)
  ELSE DEFAULT_CONFIG

validTransitions == {"fade", "slide-transition", "zoom"}

\* The value a field has when it is falsy: '' and 0.
FalsyField ==
  [s3 |-> NoBucket, s3Region |-> "", displayDuration |-> 0,
   transitionEffect |-> ""]

\* config[field] is truthy; a missing field is undefined.
Truthy(c, field) == field \in DOMAIN c /\ c[field] # FalsyField[field]

\* validateConfig. null, undefined and the primitives fail its first test.
validateConfig(c) ==
  /\ IsObject(c)
  /\ Truthy(c, "s3")
  /\ Truthy(c, "s3Region")
  /\ ~(Truthy(c, "displayDuration")
        /\ (c.displayDuration < 1 \/ c.displayDuration > 300))
  /\ ~(Truthy(c, "transitionEffect")
        /\ c.transitionEffect \notin validTransitions)

\* The fields of the form the specifications edit, and the values put in.
\* A number field hands its text to handleInputChange; displayDuration is
\* the number that text is read as.
FieldInputs ==
  {<<"s3", v>> : v \in {NoBucket, 1}}
  \cup {<<"s3Region", v>> : v \in Regions}
  \cup {<<"displayDuration", v>> : v \in DurationInputs \ {3}}
  \cup {<<"exifEnabled", v>> : v \in BOOLEAN}

\* Fields of the nested exifDisplay object.
NestedFields == {"exifEnabled"}

\* handleInputChange: the updater of setFormData.
handleInputChange(prev, name, value) == [prev EXCEPT ![name] = value]

\* onChange of a field. formData starts as the config object itself and
\* the updater copies the top level only: exifDisplay stays the object
\* that config holds, and a nested field is written into it.
EditField(name, value) ==
  /\ view = "settings"
  /\ formData' = <<handleInputChange(formData[1], name, value)>>
  /\ config' = IF name \in NestedFields
               THEN handleInputChange(config, name, value) ELSE config
  /\ UNCHANGED <<engineVars, view, stored, orphans, lastSubmit, dispatched>>
  /\ ListenerEffects
  /\ Observe("EditField")

EditAnyField == \E i \in FieldInputs : EditField(i[1], i[2])

\* handleSubmit's test of the required fields.
RegionFilled(f) == f.s3Region # ""

RequiredFilled(f) == f.s3 # NoBucket /\ f.s3Region # ""

\* What a submit did: the form it found, whether saveConfig was called and
\* the alert it raised.
Submitted(f, saved, alert) == <<[form |-> f, saveConfig |-> saved, alert |-> alert]>>

\* handleSaveConfig; throws: localStorage.setItem throws in saveConfig.
\* After a save the Settings form is unmounted and a Slideshow mounted
\* with the new config.
handleSaveConfigSetsFirst(newConfig, throws) ==
  IF throws
  THEN /\ lastSubmit' = Submitted(newConfig, TRUE, SaveAlert)
       /\ config' = newConfig
       /\ UNCHANGED <<engineVars, view, formData, stored, orphans>>
  ELSE /\ lastSubmit' = Submitted(newConfig, TRUE, NoAlert)
       /\ \E now \in Timestamps :
            stored' = <<JSONstringify(configWrapper(newConfig, now))>>
       /\ config' = newConfig
       /\ view' = "slideshow"
       /\ formData' = NoForm
       /\ MountSlideshow

handleSaveConfig(newConfig, throws) ==
  IF throws
  THEN /\ lastSubmit' = Submitted(newConfig, TRUE, SaveAlert)
       /\ UNCHANGED <<config, engineVars, view, formData, stored, orphans>>
  ELSE /\ lastSubmit' = Submitted(newConfig, TRUE, NoAlert)
       /\ \E now \in Timestamps :
            stored' = <<JSONstringify(configWrapper(newConfig, now))>>
       /\ config' = newConfig
       /\ view' = "slideshow"
       /\ formData' = NoForm
       /\ MountSlideshow

\* The submit event of the form: handleSubmit. Whether the browser checks
\* the required, min and max attributes before it dispatches the event
\* depends on the platform; the event is taken to arrive for any content
\* of the form.
Submit ==
  /\ view = "settings"
  /\ IF RequiredFilled(formData[1])
     THEN \E throws \in BOOLEAN : handleSaveConfig(formData[1], throws)
     ELSE /\ lastSubmit' = Submitted(formData[1], FALSE, RequiredAlert)
          /\ UNCHANGED <<config, engineVars, view, formData, stored, orphans>>
  /\ UNCHANGED dispatched
  /\ ListenerEffects
  /\ Observe("Submit")

\* A click on Cancel: handleCancelSettings.
CancelClick ==
  /\ view = "settings"
  /\ UNCHANGED <<config, stored, lastSubmit, dispatched>>
  /\ view' = "slideshow"
  /\ formData' = NoForm
  /\ MountSlideshow
  /\ ListenerEffects
  /\ Observe("CancelClick")

\* The page is loaded again: the timers and listeners of the old page are
\* gone, App reads the store and renders the Slideshow with what it found.
PageReloads ==
  /\ config' = LoadedConfig(stored)
  /\ view' = "slideshow"
  /\ formData' = NoForm
  /\ FreshState
  /\ loads' = <<NewLoad(config')>>
  /\ intervals' = <<>>
  /\ orphans' = 0
  /\ listeners' = DispatcherListeners("slideshow")
                    \cup {KeyPressListener(0, 0, FALSE)}
  /\ UNCHANGED <<stored, lastSubmit, dispatched>>
  /\ Observe("PageReloads")

Init == InitIn(EngineConfigs)

Next ==
  \/ KeyNext
  \/ KeyPrevious
  \/ togglePause
  \/ Tick
  \/ TimerFires
  \/ TransitionCompletes
  \/ ConfigChanges(EngineConfigs)
  \/ LoadThrows
  \/ LoadResolvesEmpty
  \/ LoadResolves

\* The engine on one source, the metadata overlay and shuffling switched
\* off, displayDuration changing.
Spec == Init /\ [][Next]_vars

InitReload == InitIn(ReloadConfigs)

NextReload ==
  \/ KeyNext
  \/ KeyPrevious
  \/ togglePause
  \/ Tick
  \/ TimerFires
  \/ TransitionCompletes
  \/ (loads = <<>> /\ ConfigChanges(ReloadConfigs))
  \/ LoadThrows
  \/ LoadResolvesEmpty
  \/ LoadResolves

\* The engine with the source changing, so that the list is loaded again;
\* the config changes when no load is in flight.
SpecReload == InitReload /\ [][NextReload]_vars

InitExif == InitIn(ExifConfigs)

NextExif ==
  \/ KeyNext
  \/ KeyPrevious
  \/ togglePause
  \/ Tick
  \/ TimerFires
  \/ TransitionCompletes
  \/ ConfigChanges(ExifConfigs)
  \/ LoadThrows
  \/ LoadResolvesEmpty
  \/ LoadResolves
  \/ ExifResolves

\* One source, the metadata overlay switched on and off.
SpecExif == InitExif /\ [][NextExif]_vars

\* The configs of the specifications of the host.
ViewConfigs == {c \in EngineConfigs : c.displayDuration = 3}

InitView == InitIn(ViewConfigs)

KeydownAny == \E e \in Events : Keydown(e)

NextView ==
  \/ KeydownAny
  \/ OrphanTimeoutRuns
  \/ Tick
  \/ TimerFires
  \/ TransitionCompletes
  \/ LoadThrows
  \/ LoadResolvesEmpty
  \/ LoadResolves

\* The engine on one config under every key of the keyboard and of the
\* remotes: the view switches between the Slideshow and the Settings form,
\* which is left without saving.
SpecView == InitView /\ [][NextView]_vars

RaceConfigs ==
  {c \in BucketConfigs : ~c.shuffleMode /\ ~c.exifEnabled /\ c.displayDuration = 3}

InitRace == InitIn(RaceConfigs)

NextRace ==
  \/ KeyNext
  \/ KeyPrevious
  \/ togglePause
  \/ Tick
  \/ TimerFires
  \/ TransitionCompletes
  \/ ConfigChanges(RaceConfigs)
  \/ LoadThrows
  \/ LoadResolvesEmpty
  \/ LoadResolves

\* The engine with the source changing at any time, also while a load is in
\* flight.
SpecRace == InitRace /\ [][NextRace]_vars

ShuffleConfigs ==
  {c \in BucketConfigs : c.s3 = 1 /\ ~c.exifEnabled /\ c.displayDuration = 3}

InitShuffle == InitIn(ShuffleConfigs)

NextShuffle ==
  \/ KeyNext
  \/ KeyPrevious
  \/ togglePause
  \/ Tick
  \/ TimerFires
  \/ TransitionCompletes
  \/ LoadThrows
  \/ LoadResolvesEmpty
  \/ LoadResolves

\* The engine on one source, mounted with shuffleMode on or off, under a
\* config that does not change.
SpecShuffle == InitShuffle /\ [][NextShuffle]_vars

\* The events of the specification of the settings store: the menu key and
\* the keys that leave the form.
SettingsEvents ==
  {e \in Events : /\ e.key \in {"F1", "Escape", "Backspace"}
                  /\ e.tag \in {"BODY", "INPUT"}}

InitSettings == InitIn({DEFAULT_CONFIG})

NextSettings ==
  \/ \E e \in SettingsEvents : Keydown(e)
  \/ EditAnyField
  \/ Submit
  \/ CancelClick
  \/ PageReloads
  \/ LoadThrows
  \/ LoadResolvesEmpty
  \/ LoadResolves
  \/ ExifResolves

\* The Settings form and the store, from a first start with an empty
\* store; the Slideshow loads its list and stands still.
SpecSettings == InitSettings /\ [][NextSettings]_vars

\* The keydown events the dispatcher takes for the menu key and for the
\* back key.
MenuPressed(e) == \E k \in 1..Len(Dispatch(e).calls) : Dispatch(e).calls[k] = "onMenu"

BackPressed(e) == \E k \in 1..Len(Dispatch(e).calls) : Dispatch(e).calls[k] = "onBack"

\* The events of the specification of the host: the menu and back keys of
\* the keyboard and of the remotes, and the keys that leave the form.
HostEvents ==
  {e \in Events : /\ MenuPressed(e) \/ BackPressed(e) \/ e.key = "Backspace"
                  /\ e.tag \in {"BODY", "INPUT"}}

\* The events of the host by what the listeners do with them.
EventsDispatchedAs(d) == {e \in HostEvents : Dispatch(e) = d}

DispatchedAs == [d \in {Dispatch(e) : e \in HostEvents} |-> EventsDispatchedAs(d)]

NextHost ==
  \/ \E e \in HostEvents : Keydown(e)
  \/ EditAnyField
  \/ Submit
  \/ CancelClick
  \/ LoadResolves

\* The host under the menu and back keys of the keyboard and of the remotes,
\* with the Settings form edited, saved and cancelled.
SpecHost == InitSettings /\ [][NextHost]_vars

\* Every app variable stays as it is: a service function is called on its
\* own.
AppIdle ==
  UNCHANGED <<config, engineVars, hostVars, listeners, runStart, runLen,
              manualSincePause, toggleRun, dispatched, opened,
              preloadedImages, images, failedImages, pair, overlay>>

\* The objects validateConfig is called with.
ValidateInputs ==
  [s3 : {NoBucket, 1}, s3Region : Regions, shuffleMode : {FALSE},
   displayDuration : {-1, 0, 1, 300, 301},
   transitionEffect : {"", "fade", "slide", "slide-transition", "zoom", "spin"},
   exifEnabled : {TRUE}]

CallValidateConfig ==
  \E c \in ValidateInputs :
    /\ called' = <<[fn |-> "validateConfig", arg |-> c,
                    returned |-> validateConfig(c)]>>
    /\ AppIdle

NextValidate == CallValidateConfig

\* validateConfig called with any object of ValidateInputs.
SpecValidate == InitSettings /\ [][NextValidate]_vars

\* The configs saveConfig is called with.
StoreConfigs ==
  {[DEFAULT_CONFIG EXCEPT !.s3 = 1],
   [DEFAULT_CONFIG EXCEPT !.s3 = 2, !.displayDuration = 3, !.shuffleMode = TRUE]}

\* What the store may hold when the page is loaded: nothing, the empty
\* string, a text that is not JSON, a JSON null or primitive, an object
\* with or without the version of this program and with or without data,
\* a config written without a wrapper.
StoredObjects ==
  {Null, Primitive("5"), Primitive("0")}
  \cup StoreConfigs
  \cup {[savedAt |-> "t1"]}
  \cup [version : {CONFIG_VERSION, "0.9"}, savedAt : {"t1"}]
  \cup [data : StoreConfigs \cup {Null}, savedAt : {"t1"}]
  \cup [version : {CONFIG_VERSION, "0.9"}, data : StoreConfigs \cup {Null},
        savedAt : {"t1"}]

StoredValues ==
  {NoBlob, <<EmptyText>>, <<Garbage>>}
  \cup {<<JSONstringify(v)>> : v \in StoredObjects}

\* The call before this one: its function and whether it threw.
Previous == IF called = NoCall THEN <<>> ELSE <<called[1].fn, called[1].threw>>

\* saveConfig(c); throws: localStorage.setItem throws.
CallSaveConfig ==
  \E c \in StoreConfigs, now \in Timestamps, throws \in BOOLEAN :
    /\ stored' = IF throws THEN stored
                 ELSE <<JSONstringify(configWrapper(c, now))>>
    /\ called' = <<[fn |-> "saveConfig", arg |-> c, threw |-> throws,
                    returned |-> Undefined, after |-> Previous]>>
    /\ UNCHANGED <<config, engineVars, view, formData, orphans, lastSubmit,
                   listeners, runStart, runLen, manualSincePause, toggleRun,
                   dispatched, opened, preloadedImages, images,
                   failedImages, pair, overlay>>

\* clearConfig(); throws: localStorage.removeItem throws.
CallClearConfig ==
  \E throws \in BOOLEAN :
    /\ stored' = IF throws THEN stored ELSE NoBlob
    /\ called' = <<[fn |-> "clearConfig", arg |-> Undefined, threw |-> throws,
                    returned |-> Undefined, after |-> Previous]>>
    /\ UNCHANGED <<config, engineVars, view, formData, orphans, lastSubmit,
                   listeners, runStart, runLen, manualSincePause, toggleRun,
                   dispatched, opened, preloadedImages, images,
                   failedImages, pair, overlay>>

\* loadConfig(); its try block holds every statement, so it does not throw.
CallLoadConfig ==
  \E getItemThrows \in BOOLEAN :
    /\ called' = <<[fn |-> "loadConfig", arg |-> Undefined, threw |-> FALSE,
                    unreadable |-> getItemThrows,
                    returned |-> loadConfig(stored, getItemThrows),
                    after |-> Previous]>>
    /\ AppIdle

\* The page has been loaded over any content of the store.
InitStore ==
  /\ stored \in StoredValues
  /\ config = LoadedConfig(stored)
  /\ loads = <<NewLoad(config)>>
  /\ InitRest
  /\ images = NotFollowed
  /\ overlay = NoOverlay

NextStore ==
  \/ CallSaveConfig
  \/ CallClearConfig
  \/ CallLoadConfig

\* The functions of the settings store called in any order over any
\* content of the store.
SpecStore == InitStore /\ [][NextStore]_vars

(***************************************************************************)
(* The photo source adapter: fetchPhotos of services/photoService.js, the  *)
(* module the Slideshow imports, and fetchPhotos of the variant for a      *)
(* public bucket with its manifests.                                       *)
(***************************************************************************)
IMAGE_EXTENSIONS == {".jpg", ".jpeg", ".png", ".gif", ".webp", ".heic", ".heif"}

\* Objects of a listing: the key in lower case and its extension.
ListedObjects ==
  {[key |-> "photos/", ext |-> ""], [key |-> "photos/a.jpg", ext |-> ".jpg"],
   [key |-> "photos/b.png", ext |-> ".png"],
   [key |-> "photos/photos.txt", ext |-> ".txt"]}

\* What the listing call does: it rejects, or resolves with Contents.
Listings ==
  {[ok |-> FALSE, Contents |-> <<>>], [ok |-> TRUE, Contents |-> <<>>]}
  \cup {[ok |-> TRUE, Contents |-> <<a, b>>] : a, b \in ListedObjects}

\* What the request of a manifest does: fetch rejects, the response is not
\* ok, its body cannot be read as a list, or it holds these lines.
Filenames == {"a.jpg", "b.png", ""}

ManifestLines == {<<>>, <<"a.jpg">>, <<"a.jpg", "", "b.png">>}

Manifests ==
  {[status |-> st, lines |-> <<>>] : st \in {"rejects", "not ok", "unreadable"}}
  \cup {[status |-> "ok", lines |-> l] : l \in ManifestLines}

HardcodedList == <<"Paul.jpg", "carter_party.jpg">>

RECURSIVE Filter(_, _)
\* array.filter(keep), keep a set of the elements to keep.
Filter(array, keep) ==
  IF array = <<>> THEN <<>>
  ELSE (IF Head(array) \in keep THEN <<Head(array)>> ELSE <<>>)
         \o Filter(Tail(array), keep)

\* The result of an adapter call: whether it threw, the strategy that gave
\* the list, the list, and the strategies it consulted, in order.
Resolved(strategy, urls, consulted) ==
  [threw |-> FALSE, strategy |-> strategy, urls |-> urls, consulted |-> consulted]

Failed(consulted) ==
  [threw |-> TRUE, strategy |-> "none", urls |-> <<>>, consulted |-> consulted]

\* fetchPhotos of services/photoService.js: the listing, filtered to the
\* image extensions; a rejected listing is rethrown.
fetchPhotos(listing) ==
  IF ~listing.ok THEN Failed(<<"listing">>)
  ELSE Resolved("listing",
         Filter(listing.Contents,
                    {o \in ListedObjects : o.ext \in IMAGE_EXTENSIONS}),
         <<"listing">>)

\* fetchPhotosFromList: photos.json, then photos.txt, then the hardcoded
\* list. The body of photos.json is taken as it is; blank lines of
\* photos.txt are dropped.
fetchPhotosFromList(json, txt, consulted) ==
  IF json.status = "ok"
  THEN Resolved("json", json.lines, consulted \o <<"json">>)
  ELSE IF txt.status = "ok"
  THEN Resolved("txt", Filter(txt.lines, {l \in Filenames : l # ""}),
                consulted \o <<"json", "txt">>)
  ELSE Resolved("hardcoded", HardcodedList, consulted \o <<"json", "txt">>)

\* fetchPhotos of the variant for a public bucket: the listing without the
\* prefix itself and the manifests; a rejected listing falls back to the
\* manifests.
fetchPhotosPublic(listing, json, txt) ==
  IF ~listing.ok THEN fetchPhotosFromList(json, txt, <<"listing">>)
  ELSE Resolved("listing",
         Filter(listing.Contents,
                    {o \in ListedObjects :
                       /\ o.key # "photos/"
                       /\ o.ext \notin {".txt", ".json"}
                       /\ o.ext \in IMAGE_EXTENSIONS}),
         <<"listing">>)

AdapterVariants == {"photoService", "public bucket"}

CallFetchPhotos ==
  \E variant \in AdapterVariants, listing \in Listings, json, txt \in Manifests :
    /\ called' = <<[fn |-> "fetchPhotos", variant |-> variant,
                    listing |-> listing, json |-> json, txt |-> txt,
                    returned |-> IF variant = "photoService"
                                 THEN fetchPhotos(listing)
                                 ELSE fetchPhotosPublic(listing, json, txt)]>>
    /\ AppIdle

NextAdapter == CallFetchPhotos

\* The adapter called over any outcome of the listing and of the requests
\* of the two manifests.
SpecAdapter == InitSettings /\ [][NextAdapter]_vars

ExtractConfigs == {c \in ExifConfigs : c.exifEnabled}

InitExtract == InitIn(ExtractConfigs)

NextExtract ==
  \/ KeyNext
  \/ KeyPrevious
  \/ togglePause
  \/ Tick
  \/ TimerFires
  \/ TransitionCompletes
  \/ LoadThrows
  \/ LoadResolvesEmpty
  \/ LoadResolves
  \/ ExifResolves

\* One source under a config that stays, the metadata overlay switched on.
SpecExtract == InitExtract /\ [][NextExtract]_vars

(***************************************************************************)
(* The preload: the Image objects of preloadImage and their events.        *)
(***************************************************************************)

\* The load event of an Image: onload stores the entry and the Slideshow
\* renders again.
ImageLoadsAt(img) ==
  /\ images.followed
  /\ img \in BagToSet(images.loading)
  /\ UNCHANGED <<config, engineVars, hostVars, dispatched>>
  /\ Effects(FALSE)
  /\ Histories("ImageLoads")
  /\ Preload("ImageLoads", img)
  /\ ExifOverlay("ImageLoads")

ImageLoads == \E img \in BagToSet(images.loading) : ImageLoadsAt(img)

\* The error event of an Image: onerror rejects the promise, which nobody
\* handles; no state is set and nothing renders.
ImageFailsAt(img) ==
  /\ images.followed
  /\ img \in BagToSet(images.loading)
  /\ UNCHANGED <<config, engineVars, hostVars, listeners, dispatched>>
  /\ Histories("ImageFails")
  /\ Preload("ImageFails", img)
  /\ ExifOverlay("ImageFails")

ImageFails == \E img \in BagToSet(images.loading) : ImageFailsAt(img)

PreloadConfigs == RaceConfigs

InitPreload ==
  /\ config \in {c \in PreloadConfigs : c.s3 = 1}
  /\ loads = <<NewLoad(config)>>
  /\ stored = NoBlob
  /\ InitRest
  /\ images = NoneLoading
  /\ overlay = NoOverlay

NextPreload ==
  \/ KeyNext
  \/ TransitionCompletes
  \/ (config.s3 = 1 /\ ConfigChanges(PreloadConfigs))
  \/ LoadResolves
  \/ ImageLoads
  \/ ImageFails

\* The preload followed while the source changes once, from the first
\* source to the second: the list is replaced, and every Image loads or
\* fails at any time.
SpecPreload == InitPreload /\ [][NextPreload]_vars

InitRetry ==
  /\ config \in ViewConfigs
  /\ loads = <<NewLoad(config)>>
  /\ stored = NoBlob
  /\ InitRest
  /\ images = NoneLoading
  /\ overlay = NoOverlay

NextRetry ==
  \/ KeyNext
  \/ KeyPrevious
  \/ Tick
  \/ TimerFires
  \/ TransitionCompletes
  \/ LoadResolves
  \/ ImageLoads
  \/ ImageFails

\* The preload followed on one list while the slideshow plays.
SpecRetry == InitRetry /\ [][NextRetry]_vars

NextLive ==
  \/ togglePause
  \/ Tick
  \/ TimerFires
  \/ TransitionCompletes
  \/ LoadResolves

\* The browser runs a timer callback that is due: an armed interval counts
\* its seconds and fires, a scheduled timeout runs.
TimersRun ==
  /\ WF_vars(Tick)
  /\ WF_vars(TimerFires)
  /\ WF_vars(TransitionCompletes)

\* The Slideshow left to its timers: no navigation command, the pause
\* toggled at any time.
SpecLive == Init /\ [][NextLive]_vars /\ TimersRun

WindowConfigs ==
  {c \in Configs : /\ c.s3 = 1 /\ c.s3Region = "us-east-1" /\ ~c.shuffleMode
                   /\ c.displayDuration = 3 /\ ~c.exifEnabled}

InitWindow == InitIn(WindowConfigs)

NextWindow ==
  \/ KeyNext
  \/ KeyPrevious
  \/ togglePause
  \/ Tick
  \/ TimerFires
  \/ TransitionCompletes
  \/ ConfigChanges(WindowConfigs)
  \/ LoadResolves

\* The Slideshow under its commands and timers with transitionEffect
\* changing at any time; a scheduled timeout runs.
SpecWindow == InitWindow /\ [][NextWindow]_vars /\ WF_vars(TransitionCompletes)

\* The callbacks a component may give the hook.
Supplied == SUBSET {"onMenu", "onBack", "onPlay", "onPause"}

\* The keys of a keyboard, pressed outside a form.
PlainEvents == {KeyEvent(k[1]) : k \in KeyboardKeys}

\* The hook of the call before this one and what that call did.
PreviousKey ==
  IF called = NoCall THEN <<>>
  ELSE <<[key |-> called[1].arg.key, returned |-> called[1].returned]>>

\* One keydown event reaches the handleKeyDown of a hook; the hook keeps
\* the callbacks it was given with the first event.
CallHandleKeyDown ==
  \E e \in PlainEvents, supplied \in Supplied :
    /\ called # NoCall => supplied = called[1].supplied
    /\ called' = <<[fn |-> "handleKeyDown", arg |-> e, supplied |-> supplied,
                    returned |-> handleKeyDownWith(e, supplied).calls,
                    after |-> PreviousKey]>>
    /\ AppIdle

NextDispatcher == CallHandleKeyDown

\* handleKeyDown of a hook with any set of callbacks, under successive
\* keydown events.
SpecDispatcher == InitSettings /\ [][NextDispatcher]_vars

(***************************************************************************)
(* The overlay under new records, policy changes and its hide timer.       *)
(***************************************************************************)
\* Values of autoHideDelay; the number field hands its text over and
\* text * 1000 is the number of the text, 0 for the text of the cleared field.
OverlayDelays == {0, 1, 5}

\* autoHide and autoHideDelay as the Settings form stores them.
OverlayPolicies == [autoHide : BOOLEAN, autoHideDelay : OverlayDelays]

\* The callback of the hide timer runs: setIsVisible(false).
HideTimerFires ==
  /\ overlay.followed
  /\ overlay.timers # <<>>
  /\ overlay' = [overlay EXCEPT !.isVisible = FALSE, !.timers = Tail(@),
                                !.arrived = FALSE]
  /\ UNCHANGED <<config, engineVars, hostVars, listeners, dispatched>>
  /\ Histories("HideTimerFires")
  /\ Preload("HideTimerFires", NoImage)

\* App renders the mounted Slideshow with another autoHide or autoHideDelay
\* in config.exifDisplay; no dependency of an effect of the Slideshow
\* changes.
PolicyChanges ==
  \E policy \in OverlayPolicies :
    /\ overlay.followed
    /\ view = "slideshow"
    /\ policy # overlay.config
    /\ overlay' = IF OverlayRendered
                  THEN OverlayAfter("PolicyChanges", policy)
                  ELSE OverlayGone(policy)
    /\ UNCHANGED <<config, engineVars, hostVars, listeners, dispatched>>
    /\ Histories("PolicyChanges")
    /\ Preload("PolicyChanges", NoImage)

OverlayConfigs ==
  {c \in ExifConfigs : c.s3Region = "us-east-1" /\ c.transitionEffect = "fade"}

InitOverlay ==
  /\ config \in {c \in OverlayConfigs : c.exifEnabled}
  /\ loads = <<NewLoad(config)>>
  /\ stored = NoBlob
  /\ InitRest
  /\ images = NotFollowed
  /\ \E policy \in OverlayPolicies :
       overlay = [NoOverlay EXCEPT !.followed = TRUE, !.config = policy]

NextOverlay ==
  \/ KeyNext
  \/ TransitionCompletes
  \/ ConfigChanges(OverlayConfigs)
  \/ LoadResolves
  \/ ExifResolves
  \/ PolicyChanges
  \/ HideTimerFires

\* One list, the overlay switched on and off, records arriving, the policy
\* changing; the browser runs a timer that is due.
SpecOverlay == InitOverlay /\ [][NextOverlay]_vars /\ WF_vars(HideTimerFires)

TypeOK ==
  /\ config \in Configs
  /\ currentIndex \in 0..MaxPhotos
  /\ Len(pending) <= MaxPending

(***************************************************************************)
(* Properties.                                                             *)
(***************************************************************************)
PlaybackState == <<currentIndex, nextIndex, isTransitioning, pending>>

PreviousInFlight == \E k \in 1..Len(pending) : pending[k].kind = "previous"

\* C1: at most one transition is in flight: there is never more than one
\* pending transition-completion callback.
AtMostOneTransitionInFlight == Len(pending) <= 1

\* C2: a next command, a previous command or a timer firing that arrives
\* while isTransitioning is true changes none of currentIndex, nextIndex,
\* isTransitioning and schedules no further completion callback.
ReentrantTriggersAreNoOps ==
  [][(isTransitioning /\ (KeyNext \/ KeyPrevious \/ TimerFires))
       => UNCHANGED PlaybackState]_vars

\* C3: from the moment togglePause sets isPaused, currentIndex does not
\* change until togglePause is issued again or a manual next/previous
\* command is issued.
PauseFreezesIndex ==
  [][(isPaused /\ ~manualSincePause) => currentIndex' = currentIndex]_vars

\* C4: the result of a metadata extraction issued for index i that arrives
\* when currentIndex is no longer i is discarded: it leaves exifData as it is.
StaleMetadataIsDiscarded ==
  [][\A r \in exifReqs : \A found \in BOOLEAN :
       (ExifResolvesFor(r, found) /\ r.idx # currentIndex)
         => exifData' = exifData]_vars

\* C5: on a non-empty list of length N, N next commands, each completed
\* before the following one is issued, return currentIndex to the value it
\* had when the first was issued.
NextNTimesReturnsToStart ==
  (runStart # NoRun /\ runStart < Len(photos) /\ runLen = Len(photos))
    => currentIndex = runStart

\* A full cycle of next commands has completed on a list of two or more
\* photos, begun at an index other than 0.
FullCycleCompleted ==
  /\ runStart > 0
  /\ Len(photos) > 1
  /\ runLen = Len(photos)
  /\ pending = <<>>

\* C6: whenever the list is loaded and non-empty and no previous-navigation
\* transition is in flight, nextIndex = (currentIndex + 1) mod length.
NextIndexIsSuccessor ==
  (Len(photos) > 0 /\ ~isLoading /\ ~PreviousInFlight)
    => nextIndex = (currentIndex + 1) % Len(photos)

\* C7: with zero or one photo, next and previous change none of
\* currentIndex, nextIndex, isTransitioning and start no transition.
NavigationIgnoresShortLists ==
  [][(Len(photos) <= 1 /\ (KeyNext \/ KeyPrevious))
       => UNCHANGED PlaybackState]_vars

\* C8: a load that fails or resolves with an empty list leaves Loading with
\* a non-null error, and while the error is set next and previous change
\* nothing.
ErrorStateIgnoresNavigation ==
  [][/\ (LoadThrows \/ LoadResolvesEmpty) => (error' # NoError /\ ~isLoading')
     /\ (error # NoError /\ (KeyNext \/ KeyPrevious))
          => UNCHANGED PlaybackState]_vars

\* C9: the error is set only at the end of a load, and while it stays set
\* currentIndex, nextIndex and isTransitioning do not change and no
\* auto-advance timer fires.
ErrorIsTerminal ==
  [][/\ (error = NoError /\ error' # NoError)
          => (LoadThrows \/ LoadResolvesEmpty)
     /\ (error # NoError /\ error' # NoError)
          => (UNCHANGED <<currentIndex, nextIndex, isTransitioning>>
              /\ ~TimerFires)]_vars

\* C10: at most one auto-advance timer is armed in every reachable state.
AtMostOneTimer == Len(intervals) <= 1

\* The timer has been armed again after the index and the duration changed.
TimerRearmed ==
  /\ Len(intervals) = 1
  /\ intervals[1].cur > 0
  /\ intervals[1].period # 10

\* C11: once the Slideshow is torn down none of its timers is pending (the
\* auto-advance interval, the transition-completion timeouts) and none of
\* its keydown listeners is subscribed, so that no transition-completion
\* callback runs after teardown.
TeardownCancelsEverything ==
  /\ orphans = 0
  /\ view # "slideshow" =>
       /\ intervals = <<>>
       /\ pending = <<>>
       /\ \A l \in listeners : l.name # "handleKeyPress"

\* C12: a load that was in flight when bucket, region, prefix or shuffleMode
\* changed is cancelled: when it completes, its result is not applied, so
\* the photo list, the error and the loading flag stay as they are.
SupersededLoadIsDiscarded ==
  [][\A k \in 1..Len(loads) :
       (/\ ~loads[k].latest
        /\ \/ LoadThrowsAt(k)
           \/ LoadResolvesEmptyAt(k)
           \/ \E n \in 1..MaxPhotos : LoadResolvesAt(k, n))
         => UNCHANGED <<photos, error, isLoading>>]_vars

Occurrences(list, u) == Cardinality({k \in 1..Len(list) : list[k] = u})

SameMultiset(a, b) ==
  /\ Len(a) = Len(b)
  /\ \A k \in 1..Len(a) : Occurrences(a, a[k]) = Occurrences(b, a[k])

\* C13: for every outcome of the random draws shuffleArray returns a list
\* with the multiset of URLs of its argument and leaves the argument as it
\* was; the list a load puts in place is a permutation of the adapter's
\* list, and the adapter's list itself when shuffleMode is off.
ShuffleIsPermutation ==
  [][\A k \in 1..Len(loads) : \A n \in 1..MaxPhotos :
       LoadResolvesAt(k, n) =>
         LET photoList == AdapterList(loads[k].s3, n) IN
         /\ \A rnd \in RandomDraws(n) :
              /\ SameMultiset(shuffleArray(photoList, rnd).shuffled, photoList)
              /\ shuffleArray(photoList, rnd).array = photoList
         /\ SameMultiset(photos', photoList)
         /\ ~loads[k].shuffleMode => photos' = photoList]_vars

\* A load with shuffleMode on has put the longest list in place in another
\* order than the adapter's.
ShuffledListLoaded ==
  /\ Len(photos) = MaxPhotos
  /\ config.shuffleMode
  /\ photos # AdapterList(config.s3, MaxPhotos)
  /\ photos[1] # Url(config.s3, 1)

\* C14: on a list of n >= 2 photos, the first load leaves currentIndex = 0
\* and nextIndex = 1; a next command issued in Ready with currentIndex = i
\* sets isTransitioning with target (i + 1) mod n and leaves currentIndex;
\* when its window elapses currentIndex = (i + 1) mod n,
\* nextIndex = (i + 2) mod n and isTransitioning is false.
NextAdvancesByOne ==
  [][LET n == Len(photos)
         i == currentIndex
     IN  /\ (photos = <<>> /\ \E k \in 1..Len(loads) : \E m \in 2..MaxPhotos :
                                 LoadResolvesAt(k, m))
              => (currentIndex' = 0 /\ nextIndex' = 1 /\ ~isTransitioning')
         /\ (n >= 2 /\ ~isTransitioning /\ pending = <<>> /\ (KeyNext \/ TimerFires))
              => /\ isTransitioning'
                 /\ nextIndex' = (i + 1) % n
                 /\ currentIndex' = i
                 /\ Len(pending') = 1 /\ pending'[1].target = (i + 1) % n
         /\ (n >= 2 /\ runStart # NoRun /\ Len(pending) = 1 /\ TransitionCompletes)
              => /\ currentIndex' = (i + 1) % n
                 /\ nextIndex' = (i + 2) % n
                 /\ ~isTransitioning']_vars

\* A next command issued at index 1 of three photos has completed.
NextCompletedFromOne ==
  /\ Len(photos) = 3
  /\ runStart = 1 /\ runLen = 1
  /\ currentIndex = 2 /\ nextIndex = 0
  /\ ~isTransitioning /\ pending = <<>>

\* C15: two togglePause commands in succession, the first issued in Ready
\* while playing, leave the engine playing with the auto-advance timer armed
\* for a full displayDuration, whatever time had elapsed before the first
\* one, and with currentIndex and nextIndex as they were; between the two
\* the engine is paused and no timer is armed.
PauseTwiceRearmsFully ==
  /\ toggleRun.count = 1 => (isPaused /\ intervals = <<>>)
  /\ toggleRun.count = 2 =>
       /\ ~isPaused
       /\ Len(intervals) = 1
       /\ intervals[1].elapsed = 0
       /\ intervals[1].period = config.displayDuration
       /\ currentIndex = toggleRun.cur
       /\ nextIndex = toggleRun.next

\* The second togglePause has been issued, the first one having come when
\* part of the interval had elapsed.
ResumedAfterPartOfInterval ==
  /\ toggleRun.count = 2
  /\ toggleRun.elapsed > 1
  /\ toggleRun.cur > 0

\* C16: for every keydown event the dispatcher invokes at most one command
\* callback, and invokes it at most once.
AtMostOneCommandPerEvent ==
  dispatched # NoDispatch => Len(dispatched[1].calls) <= 1

\* C17: for every keydown event whose key is a navigation key the dispatcher
\* calls preventDefault if and only if the target of the event is neither a
\* text input nor a selection control.
NavigationKeysPrevented ==
  (dispatched # NoDispatch /\ dispatched[1].navigation)
    => (dispatched[1].prevented <=> dispatched[1].tag \notin {"INPUT", "SELECT"})

\* A navigation key has been pressed in a field of the Settings form and
\* the view has stayed on the form.
NavigationKeyInField ==
  /\ dispatched # NoDispatch
  /\ dispatched[1].navigation
  /\ dispatched[1].tag = "SELECT"
  /\ ~dispatched[1].prevented
  /\ view = "settings"

ListenersOf(names) == {l \in listeners : l.name \in names}

\* C18: in every state the dispatcher holds exactly its two keydown
\* listeners on window, those of App's last render, and the Slideshow
\* exactly one while it is mounted and none after teardown; the cleanup of
\* the dispatcher removes both of its listeners, and running a cleanup
\* again changes nothing.
NoDanglingListeners ==
  LET cleaned == RemoveAll(listeners, DispatcherListeners(view))
      own == KeyPressListener(Len(photos), currentIndex, isTransitioning)
  IN  /\ ListenersOf({"handleKeyDown", "handleTVKey"}) = DispatcherListeners(view)
      /\ Cardinality(ListenersOf({"handleKeyDown", "handleTVKey"})) = 2
      /\ ListenersOf({"handleKeyPress"}) =
           IF view = "slideshow" THEN {own} ELSE {}
      /\ \A l \in cleaned : l.name = "handleKeyPress"
      /\ RemoveAll(cleaned, DispatcherListeners(view)) = cleaned
      /\ RemoveListener(RemoveListener(listeners, own), own)
           = RemoveListener(listeners, own)

\* The Slideshow has been mounted again by the menu key, the last key
\* pressed, and has since rendered with another currentIndex.
RemountedAndAdvanced ==
  /\ view = "slideshow"
  /\ dispatched # NoDispatch
  /\ dispatched[1].calls = <<"onMenu">>
  /\ currentIndex > 0


\* C19: a submit of the Settings form with an empty source bucket is
\* rejected: saveConfig is not called, the item in the store, the config
\* and the form stay as they are and the view stays on settings.
EmptyBucketIsRejected ==
  [][(Submit /\ formData[1].s3 = NoBucket)
       => /\ ~lastSubmit'[1].saveConfig
          /\ lastSubmit'[1].alert = RequiredAlert
          /\ stored' = stored
          /\ config' = config
          /\ formData' = formData
          /\ view' = "settings"]_vars

\* A form with an empty bucket has been submitted over a store that holds
\* an earlier save, and the region was filled in.
EmptyBucketSubmittedOverSave ==
  /\ lastSubmit # NoSubmit
  /\ lastSubmit[1].form.s3 = NoBucket
  /\ lastSubmit[1].form.s3Region # ""
  /\ ~lastSubmit[1].saveConfig
  /\ stored # NoBlob
  /\ view = "settings"
  /\ formData = <<lastSubmit[1].form>>

\* C20: the item in the store is absent or holds a config that
\* validateConfig accepts.
StoredConfigIsValid ==
  stored # NoBlob => validateConfig(JSONparse(stored[1]).value.data)

\* C21: validateConfig returns true exactly when s3Bucket and s3Region are
\* non-empty, displayDuration lies in 1..300 and transitionEffect is one of
\* fade, slide, zoom.
ValidateAcceptsExactlyTheRanges ==
  (called # NoCall /\ called[1].fn = "validateConfig") =>
    LET c == called[1].arg
    IN  called[1].returned <=>
          /\ c.s3 # NoBucket
          /\ c.s3Region # ""
          /\ c.displayDuration \in 1..300
          /\ c.transitionEffect \in {"fade", "slide", "zoom"}

\* C22: loadConfig leaves the item of the store as it is; called after a
\* saveConfig(c) that succeeded it returns c, called after a clearConfig
\* that succeeded it returns null (the store being readable).
StoreRoundTrip ==
  [][(called' # NoCall /\ called'[1].fn = "loadConfig") =>
       /\ stored' = stored
       /\ ~called'[1].threw
       /\ (/\ called # NoCall /\ called[1].fn = "saveConfig"
           /\ ~called[1].threw /\ ~called'[1].unreadable)
            => called'[1].returned = called[1].arg
       /\ (/\ called # NoCall /\ called[1].fn = "clearConfig"
           /\ ~called[1].threw /\ ~called'[1].unreadable)
            => called'[1].returned = Null]_vars

\* loadConfig has returned the second config after a saveConfig that
\* replaced another item.
LoadedWhatWasSaved ==
  /\ called # NoCall
  /\ called[1].fn = "loadConfig"
  /\ called[1].after = <<"saveConfig", FALSE>>
  /\ called[1].returned \in StoreConfigs
  /\ called[1].returned.s3 = 2
  /\ JSONparse(stored[1]).value.savedAt = "t2"

\* C23: for every content of the store loadConfig does not throw and
\* returns null or a configuration value, an object; when the stored object
\* has another version tag or none, it returns the object's data if it has
\* a data field and the object itself otherwise.
LoadConfigIsTotal ==
  (called # NoCall /\ called[1].fn = "loadConfig") =>
    /\ ~called[1].threw
    /\ called[1].returned = Null \/ IsObject(called[1].returned)
    /\ (/\ ~called[1].unreadable
        /\ stored # NoBlob
        /\ ~JSONparse(stored[1]).threw
        /\ IsObject(JSONparse(stored[1]).value)
        /\ ~(/\ "version" \in DOMAIN JSONparse(stored[1]).value
             /\ JSONparse(stored[1]).value.version = CONFIG_VERSION))
         => LET blob == JSONparse(stored[1]).value
            IN  called[1].returned =
                  IF "data" \in DOMAIN blob THEN blob.data ELSE blob


\* C24: a save from the Settings form that fails to persist raises the
\* alert and changes nothing else: config, the store and the form stay as
\* they are and the view stays on settings. A submit changes config or the
\* view only when the save succeeded, and then config is the form's data,
\* the store holds it and the view is the slideshow.
FailedSaveChangesNothing ==
  [][Submit =>
       /\ lastSubmit'[1].alert = SaveAlert =>
            /\ lastSubmit'[1].saveConfig
            /\ UNCHANGED <<config, stored, formData, view>>
       /\ (config' # config \/ view' # view) =>
            /\ lastSubmit'[1].saveConfig
            /\ lastSubmit'[1].alert = NoAlert
       /\ (lastSubmit'[1].saveConfig /\ lastSubmit'[1].alert = NoAlert) =>
            /\ config' = formData[1]
            /\ view' = "slideshow"
            /\ JSONparse(stored'[1]).value.data = formData[1]]_vars

\* A save of an edited form has failed over a store that holds an earlier
\* save, and the form is still open.
SaveFailedOverEarlierSave ==
  /\ lastSubmit # NoSubmit
  /\ lastSubmit[1].alert = SaveAlert
  /\ view = "settings"
  /\ formData = <<lastSubmit[1].form>>
  /\ formData[1] # config
  /\ stored # NoBlob

\* C25: when the Settings form has been left without a save (cancel, back
\* or menu), the config the Slideshow receives is the config of the moment
\* the form was opened, in every field, and the item of the store is the
\* one of that moment.
ConfigChangesOnlyBySave ==
  (view = "slideshow" /\ opened # NotOpened) =>
    /\ config = opened[1].config
    /\ stored = opened[1].stored

\* C26: the adapter returns the result of the first strategy that succeeds,
\* in the order listing (also when it yields no photos), photos.json,
\* photos.txt, hardcoded list; it consults no strategy after one succeeded
\* and, a strategy always succeeding in the end, it does not throw.
AdapterFollowsPriorityOrder ==
  (called # NoCall /\ called[1].fn = "fetchPhotos") =>
    LET c == called[1]
        first == IF c.listing.ok THEN "listing"
                 ELSE IF c.json.status = "ok" THEN "json"
                 ELSE IF c.txt.status = "ok" THEN "txt"
                 ELSE "hardcoded"
    IN  /\ ~c.returned.threw
        /\ c.returned.strategy = first
        /\ c.returned.consulted =
             CASE first = "listing" -> <<"listing">>
               [] first = "json" -> <<"listing", "json">>
               [] OTHER -> <<"listing", "json", "txt">>


\* C27: for every outcome of the image fetch, the metadata parse and the
\* geocoding call extractExifData does not throw and returns a record or
\* null, and the completion of an extraction changes none of currentIndex,
\* nextIndex, isTransitioning, isPaused, error and the auto-advance timer.
ExtractionNeverInterrupts ==
  [][ExifResolves =>
       /\ \A o \in ExifOutcomes :
            ~extractExifData(o).threw /\ Len(extractExifData(o).data) <= 1
       /\ UNCHANGED <<currentIndex, nextIndex, isTransitioning, isPaused,
                      error, intervals, pending, photos>>]_vars

\* An extraction has completed with a record for a photo other than the
\* first while the auto-advance timer was part of its way.
ExtractedWhileTimerRuns ==
  /\ exifData # NoExif
  /\ exifData.idx > 0
  /\ exifData.idx = currentIndex
  /\ Len(intervals) = 1
  /\ intervals[1].elapsed > 1
  /\ ~isPaused

\* C28: the entries of preloadedImages only grow and only on confirmed
\* loads: every step keeps each entry with its url, and an entry it adds is
\* the index and url of an Image whose load event the step handles; an error
\* event or a load still pending adds nothing.
CacheOnlyGrows ==
  [][/\ preloadedImages \subseteq preloadedImages'
     /\ \A e \in preloadedImages' \ preloadedImages : ImageLoadsAt(e)]_vars

\* The Images of index i that are loading.
LoadingOf(loading, i) ==
  BagCardinality([e \in {x \in BagToSet(loading) : x.index = i} |-> loading[e]])

\* C29: a preload failure is not fatal and not retried: the error event of
\* an Image leaves error, the list, the indices, the transition, the pause
\* and the auto-advance timer as they are, and while photos, currentIndex
\* and nextIndex stay the same no further load of an index that has failed
\* is started.
PreloadFailureIsNotRetried ==
  [][/\ ImageFails =>
          UNCHANGED <<error, isLoading, photos, currentIndex, nextIndex,
                      isTransitioning, isPaused, intervals, pending>>
     /\ (photos' = photos /\ currentIndex' = currentIndex
           /\ nextIndex' = nextIndex)
          => \A i \in failedImages :
               LoadingOf(images'.loading, i) <= LoadingOf(images.loading, i)]_vars

\* C30: the view is always slideshow or settings; the menu key pressed in
\* the slideshow opens the settings; the back key pressed in the settings
\* returns to the slideshow and pressed in the slideshow leaves the view as
\* it is; a cancel of the form (its button or its keys) and a successful
\* save both return to the slideshow.
ViewStateMachine ==
  /\ view \in {"slideshow", "settings"}
  /\ [][/\ view' \in {"slideshow", "settings"}
        /\ \A e \in (IF dispatched' = NoDispatch THEN {}
                      ELSE DispatchedAs[dispatched'[1]]) :
             Keydown(e) =>
               /\ (view = "slideshow" /\ MenuPressed(e)) => view' = "settings"
               /\ (view = "settings" /\ BackPressed(e)) => view' = "slideshow"
               /\ (view = "slideshow" /\ BackPressed(e)) => view' = "slideshow"
               /\ (view = "settings" /\ SettingsCancels(e)) => view' = "slideshow"
        /\ CancelClick => view' = "slideshow"
        /\ (/\ lastSubmit' # NoSubmit
            /\ lastSubmit'[1].saveConfig
            /\ lastSubmit'[1].alert = NoAlert
            /\ Submit)
             => view' = "slideshow"]_vars

\* The settings were opened with the menu key of a remote that both
\* listeners map, then saved, and the slideshow shows the saved source.
SavedAfterRemoteMenu ==
  /\ view = "slideshow"
  /\ dispatched # NoDispatch
  /\ Len(dispatched[1].calls) = 2
  /\ dispatched[1].calls[1] = "onMenu"
  /\ lastSubmit # NoSubmit
  /\ lastSubmit[1].saveConfig
  /\ lastSubmit[1].alert = NoAlert
  /\ config.s3 # NoBucket

\* C31: in every state of the mounted Slideshow isTransitioning is true
\* exactly when a transition-completion callback is pending.
TransitioningIffCompletionPending ==
  view = "slideshow" => (isTransitioning <=> pending # <<>>)

\* C32: on a list of n >= 2 photos a previous command issued in Ready with
\* currentIndex = i completes with currentIndex = (i - 1) mod n and
\* nextIndex = i; the next command after it, completed, restores
\* currentIndex and nextIndex to their values before the pair.
PreviousThenNextRestores ==
  /\ pair.stage = 2 =>
       /\ currentIndex = (pair.cur + Len(photos) - 1) % Len(photos)
       /\ nextIndex = pair.cur
  /\ pair.stage = 4 =>
       /\ currentIndex = pair.cur
       /\ nextIndex = pair.next

\* C33: while the Slideshow stays in Ready on a list of n >= 2 photos and
\* is not paused, with the timers running and no navigation command,
\* currentIndex advances again and again and every index of the list is
\* displayed infinitely often.
AutoAdvanceShowsEveryPhoto ==
  \A n \in 2..MaxPhotos : \A i \in 0..(n - 1) :
    <>[](Len(photos) = n /\ error = NoError /\ ~isPaused)
      => []<>(currentIndex = i /\ ~isTransitioning)

\* The timer alone has taken a list of two or more photos once around.
AutoAdvancedOnceAround ==
  /\ Len(photos) >= 2
  /\ runStart = 0
  /\ runLen = Len(photos)
  /\ currentIndex = 0
  /\ ~isPaused
  /\ ~isTransitioning

\* C34: every transition that starts on the mounted Slideshow completes:
\* isTransitioning set leads to isTransitioning cleared, by a timeout whose
\* delay is the same fixed window under every transitionEffect, paused or
\* not.
TransitionAlwaysCompletes ==
  /\ [](\A k \in 1..Len(pending) : pending[k].delay = TransitionWindow)
  /\ isTransitioning ~> ~isTransitioning

\* A transition started by a key has completed under the zoom effect
\* while the Slideshow was paused.
CompletedPausedUnderZoom ==
  /\ config.transitionEffect = "zoom"
  /\ isPaused
  /\ ~isTransitioning
  /\ pending = <<>>
  /\ currentIndex = 1
  /\ manualSincePause

\* C35: in every state of the mounted Slideshow the auto-advance timer is
\* armed exactly when the photo list is non-empty, isPaused is false and
\* isTransitioning is false.
TimerArmedIffPlaying ==
  view = "slideshow" =>
    (intervals # <<>> <=> (Len(photos) > 0 /\ ~isPaused /\ ~isTransitioning))

\* The timer is armed again for the third photo after a pause and a resume.
ArmedAfterResume ==
  /\ Len(intervals) = 1
  /\ intervals[1].cur = 2
  /\ toggleRun.count = 2
  /\ ~isPaused

\* C36: in every state in which the photo list is non-empty currentIndex is
\* an index of the list, also after a reload with a list of another length.
CurrentIndexInRange ==
  Len(photos) > 0 => (0 <= currentIndex /\ currentIndex < Len(photos))

\* C37: in every state every entry of preloadedImages agrees with the
\* photo list: the url stored for index i is photos[i], also after a config
\* change has replaced the list of the mounted Slideshow.
CacheAgreesWithList ==
  \A e \in preloadedImages : e.url = PhotoAt(photos, e.index)

\* C38: when the hook was given both onPlay and onPause, MediaPlay invokes
\* onPlay, MediaPause invokes onPause, and space and MediaPlayPause toggle:
\* of two successive such events one invokes onPlay and the other onPause.
PlayPauseKeysToggle ==
  (/\ called # NoCall
   /\ called[1].fn = "handleKeyDown"
   /\ {"onPlay", "onPause"} \subseteq called[1].supplied)
    => /\ called[1].arg.key = "MediaPlay" => called[1].returned = <<"onPlay">>
       /\ called[1].arg.key = "MediaPause" => called[1].returned = <<"onPause">>
       /\ (/\ called[1].arg.key \in {" ", "MediaPlayPause"}
           /\ called[1].after # <<>>
           /\ called[1].after[1].key \in {" ", "MediaPlayPause"})
            => {called[1].returned, called[1].after[1].returned}
                 = {<<"onPlay">>, <<"onPause">>}

\* C39: while the overlay is mounted with autoHide off it is visible; at
\* most one hide timer is pending and none while the overlay is not
\* mounted; with autoHide on, the arrival of a new record leaves the
\* overlay visible with one timer of autoHideDelay seconds pending, the
\* timer hides the overlay when it runs, and a visible overlay is hidden
\* in the end unless a new record or another policy arrives or it is
\* unmounted first.
OverlayAutoHide ==
  /\ []((overlay.mounted /\ ~overlay.config.autoHide) => overlay.isVisible)
  /\ [](Len(overlay.timers) <= 1 /\ (~OverlayRendered => overlay.timers = <<>>))
  /\ [][(ExifResolves /\ OverlayRendered' /\ overlay.config.autoHide)
          => /\ overlay'.isVisible
             /\ overlay'.timers = <<overlay.config.autoHideDelay * 1000>>]_vars
  /\ [][HideTimerFires => (~overlay'.isVisible /\ overlay'.timers = <<>>)]_vars
  /\ (overlay.mounted /\ overlay.config.autoHide /\ overlay.isVisible
        /\ ~overlay.arrived)
       ~> (~overlay.isVisible \/ ~overlay.mounted \/ overlay.arrived)

\* The hide timer of the record of a later photo has hidden the overlay.
HiddenAfterDelay ==
  /\ overlay.mounted
  /\ overlay.config.autoHide
  /\ ~overlay.isVisible
  /\ exifData.idx > 0
  /\ exifData.idx = currentIndex

====
